---- MODULE Spec2Model ----
(***************************************************************************)
(* Model of the Position_VAE repository:                                   *)
(*   - src/processing/data_processing.py : the preprocessing operations on *)
(*     a table of joint observations (rows indexed by frame, with columns  *)
(*     label, x, y, z and derived columns);                                *)
(*   - src/VAE/main.py : the training orchestrator main().                 *)
(*                                                                         *)
(* Tables.  A DataFrame is a record [rows, cols]: rows is the sequence of  *)
(* rows in table order, each row carrying its index value (frame), and     *)
(* cols is the set of derived columns present ("distance", "landmarks").   *)
(* The model covers tables with at most one row per (frame, label): there  *)
(* pandas' index alignment of two Series is a lookup keyed by frame.       *)
(*                                                                         *)
(* Numbers.  x, y, z are integers (whole units) or NaN.  Derived distances *)
(* are fixed-point: thousandths of a unit, rounded to the nearest          *)
(* thousandth; the reference coordinates of add_landmark_location are the  *)
(* source's literals rounded to thousandths.                               *)
(***************************************************************************)
EXTENDS Integers, Sequences, FiniteSets, TLC

VARIABLES arg, df, call, result, pc, config, invoked, failure

vars == <<arg, df, call, result, pc, config, invoked, failure>>

tableVars == <<arg, df, call, result>>
mainVars == <<pc, config, invoked, failure>>

-----------------------------------------------------------------------------
(* Bounds of the model *)

\* frame indexes are 1..MaxFrame
MaxFrame == 2
\* thresholds n of remove_rows range over 0..MaxN
MaxN == 1
\* a configuration lacks at most MaxMissing recognized keys
MaxMissing == 1

-----------------------------------------------------------------------------
(* Values *)

\* the missing value pandas fills in where an index label has no partner
NaN == -1000000

IsNaN(v) == v = NaN

\* float subtraction; NaN propagates
Sub(a, b) == IF IsNaN(a) \/ IsNaN(b) THEN NaN ELSE a - b

\* x > n and x < n on floats; every comparison with NaN is False
Gt(v, n) == ~IsNaN(v) /\ v > n
Lt(v, n) == ~IsNaN(v) /\ v < n

\* Python truthiness of a float, as Series.all() uses it: nonzero (NaN included)
Truthy(v) == v # 0

RECURSIVE FloorSqrt(_, _, _)
\* largest r with r*r <= s, searched in lo..hi-1 (lo*lo <= s < hi*hi)
FloorSqrt(s, lo, hi) ==
    IF hi - lo <= 1 THEN lo
    ELSE LET mid == (lo + hi) \div 2
         IN  IF mid * mid <= s THEN FloorSqrt(s, mid, hi) ELSE FloorSqrt(s, lo, mid)

\* sqrt rounded to the nearest integer
Sqrt(s) ==
    LET r == FloorSqrt(s, 0, 46340)
    IN  IF s - r * r > r THEN r + 1 ELSE r

\* np.sqrt(x**2 + y**2 + z**2), in thousandths
Norm(x, y, z) ==
    IF IsNaN(x) \/ IsNaN(y) \/ IsNaN(z) THEN NaN
    ELSE Sqrt(1000000 * (x * x + y * y + z * z))

-----------------------------------------------------------------------------
(* Tables *)

\* the joint labels, in the sorted order groupby("label") iterates them
LabelOrder == <<"hip", "knee">>
Labels == {LabelOrder[i] : i \in 1..Len(LabelOrder)}

Frames == 1..MaxFrame

NewRow(f, l, p) ==
    [frame |-> f, label |-> l, x |-> p[1], y |-> p[2], z |-> p[3],
     distance |-> NaN, lmk |-> <<>>]

Table(rows, cols) == [rows |-> rows, cols |-> cols]

\* df.index.unique(): the frame indexes occurring in the table
FramesOf(t) == {t.rows[i].frame : i \in 1..Len(t.rows)}

RowsOfFrame(t, f) == {i \in 1..Len(t.rows) : t.rows[i].frame = f}

RECURSIVE Concat(_, _, _)
\* pd.concat of the tables parts[i], i = from..to, along axis 0
Concat(parts, from, to) ==
    IF from > to THEN <<>> ELSE parts[from] \o Concat(parts, from + 1, to)

\* groups.get_group(name): the rows labelled name, in table order
GetGroup(rows, name) == SelectSeq(rows, LAMBDA r : r.label = name)

HasGroup(rows, name) == \E i \in 1..Len(rows) : rows[i].label = name

\* a positional pairing: every row is paired with the first hip row
AlignedToFirst(hip, f, c) == hip[1][c]

\* hip[c] aligned on the index value f: the hip row of frame f, NaN if none
Aligned(hip, f, c) ==
    IF \E i \in 1..Len(hip) : hip[i].frame = f
    THEN hip[CHOOSE i \in 1..Len(hip) : hip[i].frame = f][c]
    ELSE NaN

-----------------------------------------------------------------------------
(* Outcomes of a call *)

NoTable == Table(<<>>, {})

Returned(t) == [kind |-> "table", table |-> t, flag |-> FALSE, error |-> "", indexes |-> {}]
ReturnedBool(b) == [kind |-> "bool", table |-> NoTable, flag |-> b, error |-> "", indexes |-> {}]
ReturnedNone == [kind |-> "none", table |-> NoTable, flag |-> FALSE, error |-> "", indexes |-> {}]
Raised(e, ix) == [kind |-> "raise", table |-> NoTable, flag |-> FALSE, error |-> e, indexes |-> ix]

-----------------------------------------------------------------------------
(* center_hip *)

\* one pass of the loop body for the group `name`: x, y, z minus the aligned hip
CenterGroup(rows, hip, name) ==
    LET group == GetGroup(rows, name)
    IN  [i \in 1..Len(group) |->
            [group[i] EXCEPT !.x = Sub(group[i].x, Aligned(hip, group[i].frame, "x")),
                             !.y = Sub(group[i].y, Aligned(hip, group[i].frame, "y")),
                             !.z = Sub(group[i].z, Aligned(hip, group[i].frame, "z"))]]

\* hip['x'] = 0; hip['y'] = 0; hip['z'] = 0
ZeroHip(hip) ==
    [i \in 1..Len(hip) |-> [hip[i] EXCEPT !.x = 0, !.y = 0, !.z = 0]]

\* the result without the final concat of the hip group
CenterHipRowsNoHip(rows) ==
    LET hip == GetGroup(rows, "hip")
        parts == [k \in 1..Len(LabelOrder) |->
                    IF LabelOrder[k] = "hip" THEN <<>>
                    ELSE CenterGroup(rows, hip, LabelOrder[k])]
    IN  Concat(parts, 1, Len(LabelOrder))

\* temp_df: the centered non-hip groups in group order, then the zeroed hip group
CenterHipRows(rows) ==
    LET hip == GetGroup(rows, "hip")
        parts == [k \in 1..Len(LabelOrder) |->
                    IF LabelOrder[k] = "hip" THEN <<>>
                    ELSE CenterGroup(rows, hip, LabelOrder[k])]
    IN  Concat(parts, 1, Len(LabelOrder)) \o ZeroHip(hip)

center_hip(t) ==
    IF ~HasGroup(t.rows, "hip") THEN Raised("KeyError", {})
    ELSE Returned(Table(CenterHipRows(t.rows), t.cols))

-----------------------------------------------------------------------------
(* calculate_distance *)

\* df["distance"] = np.sqrt(df["x"] ** 2 + df["y"] ** 2 + df["z"] ** 2)
calculate_distance(t) ==
    Table([i \in 1..Len(t.rows) |->
              [t.rows[i] EXCEPT !.distance = Norm(t.rows[i].x, t.rows[i].y, t.rows[i].z)]],
          t.cols \cup {"distance"})

-----------------------------------------------------------------------------
(* check_hip_centered *)

\* Series.all(): every value of column c is truthy
SeriesAll(rows, c) == \A i \in 1..Len(rows) : Truthy(rows[i][c])

check_hip_centered(t) ==
    IF ~HasGroup(t.rows, "hip") THEN Raised("KeyError", {})
    ELSE LET hip == GetGroup(t.rows, "hip")
         IN  ReturnedBool(/\ SeriesAll(hip, "x") = FALSE
                          /\ SeriesAll(hip, "y") = FALSE
                          /\ SeriesAll(hip, "z") = FALSE)

-----------------------------------------------------------------------------
(* add_landmark_location *)

lmks == <<"b1", "b2", "b3", "b4", "f1", "f2", "f3", "f4">>

\* the reference coordinates with the first two rows exchanged
coords_exchanged ==
    << <<3268, 2332, 3073>>,
       <<1883, 2250, 3110>>,
       <<-2740, 3062, -2054>>,
       <<-3091, 3007, -869>>,
       <<-2162, 2429, 3521>>,
       <<3869, -196, 2529>>,
       <<2510, 3281, -2044>>,
       <<-3561, 1774, -1862>> >>

\* the reference coordinates, in thousandths
coords ==
    << <<1883, 2250, 3110>>,
       <<3268, 2332, 3073>>,
       <<-2740, 3062, -2054>>,
       <<-3091, 3007, -869>>,
       <<-2162, 2429, 3521>>,
       <<3869, -196, 2529>>,
       <<2510, 3281, -2044>>,
       <<-3561, 1774, -1862>> >>

\* the Euclidean distance from (x, y, z) to the point c, in thousandths
Euclidean(x, y, z, c) ==
    IF IsNaN(x) \/ IsNaN(y) \/ IsNaN(z) THEN NaN
    ELSE LET dx == 1000 * x - c[1]
             dy == 1000 * y - c[2]
             dz == 1000 * z - c[3]
         IN  Sqrt(dx * dx + dy * dy + dz * dz)

\* cdist(df[['x', 'y', 'z']], coords): row i of the N x 8 distance matrix
cdist(rows, cs) ==
    [i \in 1..Len(rows) |->
        [j \in 1..Len(cs) |-> Euclidean(rows[i].x, rows[i].y, rows[i].z, cs[j])]]

IsMonotonic(rows) ==
    \A i \in 1..Len(rows) : \A j \in 1..Len(rows) :
        i < j => rows[i].frame <= rows[j].frame

RECURSIVE Orderings(_)
\* every sequence that lists the rows of the set S once each
Orderings(S) ==
    IF S = {} THEN {<<>>}
    ELSE UNION {{<<r>> \o p : p \in Orderings(S \ {r})} : r \in S}

RECURSIVE SortedFrom(_, _)
\* the orders of rows by non-decreasing frame, for the frames f and above
SortedFrom(rows, f) ==
    IF f > MaxFrame THEN {<<>>}
    ELSE {a \o b : a \in Orderings({rows[i] : i \in {k \in 1..Len(rows) : rows[k].frame = f}}),
                   b \in SortedFrom(rows, f + 1)}

\* no sort at all
sort_index_skipped(rows) == {rows}

\* sort_index(): a table already in index order is kept as it is; otherwise the
\* default (unstable) sort may leave the rows of one frame in any order
sort_index(rows) ==
    IF IsMonotonic(rows) THEN {rows} ELSE SortedFrom(rows, 1)

\* df_lmks before the final sort: the copy with the 8 distance columns assigned
WithLandmarks(t) ==
    LET distances == cdist(t.rows, coords)
    IN  Table([i \in 1..Len(t.rows) |-> [t.rows[i] EXCEPT !.lmk = distances[i]]],
              t.cols \cup {"landmarks"})

\* the tables add_landmark_location may return
add_landmark_location(t) ==
    LET df_lmks == WithLandmarks(t)
    IN  {Table(sorted, df_lmks.cols) : sorted \in sort_index(df_lmks.rows)}

-----------------------------------------------------------------------------
(* remove_rows *)

\* the column lists passed to remove_rows
ColumnChoices == {<<"x", "y", "z">>, <<"x">>}
Types == {"g", "l"}
Thresholds == 0..MaxN

\* mask: any of the checked columns of the row is > n (type 'g') or < n (else)
Mask(row, n, columns, type) ==
    \E k \in 1..Len(columns) :
        IF type = "g" THEN Gt(row[columns[k]], n) ELSE Lt(row[columns[k]], n)

\* df.loc[mask, :].index.unique()
IndexesToDrop(t, n, columns, type) ==
    {t.rows[i].frame : i \in {k \in 1..Len(t.rows) : Mask(t.rows[k], n, columns, type)}}

\* df.drop(indexes_to_drop): every row whose index is among the dropped ones goes
Drop(t, indexes) ==
    Table(SelectSeq(t.rows, LAMBDA r : r.frame \notin indexes), t.cols)

\* a filter by row: only the rows the mask marks go
remove_rows_by_row(t, n, columns, type) ==
    Table(SelectSeq(t.rows, LAMBDA r : ~Mask(r, n, columns, type)), t.cols)

remove_rows(t, n, columns, type) ==
    Drop(t, IndexesToDrop(t, n, columns, type))

-----------------------------------------------------------------------------
(* check_index_row_count *)

\* df.index.value_counts(): rows per frame index
RowCount(t, f) == Cardinality(RowsOfFrame(t, f))

\* only the frames with too few rows
IncorrectIndexesBelow(t, expected_count) ==
    {f \in FramesOf(t) : RowCount(t, f) < expected_count}

IncorrectIndexes(t, expected_count) ==
    {f \in FramesOf(t) : RowCount(t, f) # expected_count}

check_index_row_count(t, expected_count) ==
    LET incorrect_indexes == IncorrectIndexes(t, expected_count)
    IN  IF incorrect_indexes # {} THEN Raised("ValueError", incorrect_indexes)
        ELSE ReturnedNone

ExpectedCounts == 1..(Len(LabelOrder) + 1)

-----------------------------------------------------------------------------
(* The caller of the preprocessing operations.                             *)
(*   arg    : the value of the table passed to the last call, at the call  *)
(*   df     : that same table object as the caller sees it after the call  *)
(*   call   : the last call and its parameters                             *)
(*   result : what the last call returned or raised                        *)
(* The next call is given the table the last call returned, or the         *)
(* caller's table when the last call returned no table.                    *)

NoCall == [op |-> "init", n |-> 0, columns |-> <<>>, type |-> "", expected_count |-> 0]
Call(op) == [NoCall EXCEPT !.op = op]

Current == IF result.kind = "table" THEN result.table ELSE df

\* the coordinates a row of an input table may hold
Points == {<<0, 0, 0>>, <<1, 2, 0>>, <<0, 1, 2>>}
\* the coordinates of the rows of a raw recording, away from the origin
RawPoints == Points \ {<<0, 0, 0>>}

\* the rows of frame f under the assignment a, in label order
FrameRows(a, f) ==
    LET parts == [k \in 1..Len(LabelOrder) |->
                    IF a[f][LabelOrder[k]] = <<>> THEN <<>>
                    ELSE <<NewRow(f, LabelOrder[k], a[f][LabelOrder[k]])>>]
    IN  Concat(parts, 1, Len(LabelOrder))

\* the table of the assignment a over the frames 1..n, frame by frame
FrameMajor(a, n) == Concat([f \in 1..n |-> FrameRows(a, f)], 1, n)

\* the same rows, label by label
LabelMajor(a, n) ==
    LET rows == FrameMajor(a, n)
    IN  Concat([k \in 1..Len(LabelOrder) |-> GetGroup(rows, LabelOrder[k])],
               1, Len(LabelOrder))

\* input tables with at most one row per (frame, label), in either order
AnyTables ==
    LET rowsets == UNION {{FrameMajor(a, MaxFrame), LabelMajor(a, MaxFrame)} :
                            a \in [Frames -> [Labels -> Points \cup {<<>>}]]}
    IN  {Table(rows, {}) : rows \in rowsets}

\* input tables in which every frame 1..n has exactly one row per label
CompleteTables ==
    LET rowsets == UNION {{FrameMajor(a, n) : a \in [1..n -> [Labels -> RawPoints]]} :
                            n \in 1..MaxFrame}
    IN  {Table(rows, {}) : rows \in rowsets}

CenterHip ==
    /\ arg' = Current
    /\ df' = Current
    /\ call' = Call("center_hip")
    /\ result' = center_hip(Current)
    /\ UNCHANGED mainVars

\* the column is assigned on the table passed in, and that table is returned
CalculateDistance ==
    /\ arg' = Current
    /\ df' = calculate_distance(Current)
    /\ call' = Call("calculate_distance")
    /\ result' = Returned(calculate_distance(Current))
    /\ UNCHANGED mainVars

CheckHipCentered ==
    /\ arg' = Current
    /\ df' = Current
    /\ call' = Call("check_hip_centered")
    /\ result' = check_hip_centered(Current)
    /\ UNCHANGED mainVars

AddLandmarkLocation ==
    \E out \in add_landmark_location(Current) :
        /\ arg' = Current
        /\ df' = Current
        /\ call' = Call("add_landmark_location")
        /\ result' = Returned(out)
        /\ UNCHANGED mainVars

RemoveRows ==
    \E n \in Thresholds, columns \in ColumnChoices, type \in Types :
        /\ arg' = Current
        /\ df' = Current
        /\ call' = [Call("remove_rows") EXCEPT !.n = n, !.columns = columns, !.type = type]
        /\ result' = Returned(remove_rows(Current, n, columns, type))
        /\ UNCHANGED mainVars

CheckIndexRowCount ==
    \E expected_count \in ExpectedCounts :
        /\ arg' = Current
        /\ df' = Current
        /\ call' = [Call("check_index_row_count") EXCEPT !.expected_count = expected_count]
        /\ result' = check_index_row_count(Current, expected_count)
        /\ UNCHANGED mainVars

-----------------------------------------------------------------------------
(* main() of the training orchestrator.  The configuration is the set of   *)
(* recognized keys it lacks and the values main() branches on.  Calls into *)
(* the training framework are opaque and taken to return.                  *)

Keys ==
    {"tensorboard.logdir", "tensorboard.name",
     "plots.label_path", "plots.min_cluster_size", "plots.umap_interval", "plots.umap_input",
     "model.in_dim", "model.hidden_dims", "model.beta", "model.latent_dim",
     "data.dir", "train.retrive", "train.retrive_path", "trainer_params.gpus"}

Configs ==
    [missing : {m \in SUBSET Keys : Cardinality(m) <= MaxMissing},
     name : {"no_landmarks", "landmarks"},
     retrive : BOOLEAN,
     gpus : {"empty", "nonempty"}]

NoConfig == [missing |-> {}, name |-> "", retrive |-> FALSE, gpus |-> ""]

\* config[section][key] for each of the keys: a KeyError if one is absent
Has(keys) == keys \cap config.missing = {}

Goto(next) ==
    /\ pc' = next
    /\ UNCHANGED <<config, invoked, failure>>

Fail(e) ==
    /\ pc' = "failed"
    /\ failure' = e
    /\ UNCHANGED <<config, invoked>>

Invoke(what, next) ==
    /\ pc' = next
    /\ invoked' = Append(invoked, what)
    /\ UNCHANGED <<config, failure>>

LoadConfig ==
    /\ pc = "start"
    /\ Goto("logger")
    /\ UNCHANGED tableVars

SetupLogger ==
    /\ pc = "logger"
    /\ IF Has({"tensorboard.logdir", "tensorboard.name"})
       THEN Goto("plots") ELSE Fail("KeyError")
    /\ UNCHANGED tableVars

SetupPlots ==
    /\ pc = "plots"
    /\ IF Has({"tensorboard.name", "tensorboard.logdir", "plots.label_path",
               "plots.min_cluster_size", "plots.umap_interval", "plots.umap_input"})
       THEN Goto("model") ELSE Fail("KeyError")
    /\ UNCHANGED tableVars

SetupModel ==
    /\ pc = "model"
    /\ IF Has({"model.in_dim", "model.hidden_dims", "model.beta", "model.latent_dim"})
       THEN Goto("data") ELSE Fail("KeyError")
    /\ UNCHANGED tableVars

\* the data module set up without the lookup of the gpus
SetupDataNoGpus ==
    /\ pc = "data"
    /\ IF Has({"data.dir"}) THEN Goto("checkpoint") ELSE Fail("KeyError")
    /\ UNCHANGED tableVars

SetupData ==
    /\ pc = "data"
    /\ IF Has({"data.dir", "trainer_params.gpus"})
       THEN Goto("checkpoint") ELSE Fail("KeyError")
    /\ UNCHANGED tableVars

SelectCheckpoint ==
    /\ pc = "checkpoint"
    /\ IF ~Has({"train.retrive"}) THEN Fail("KeyError")
       ELSE IF config.retrive
            THEN IF Has({"train.retrive_path"}) THEN Goto("trainer") ELSE Fail("KeyError")
            ELSE Goto("trainer")
    /\ UNCHANGED tableVars

SetupTrainer ==
    /\ pc = "trainer"
    /\ Goto("retrieve")
    /\ UNCHANGED tableVars

RetrieveModel ==
    /\ pc = "retrieve"
    /\ IF ~Has({"train.retrive"}) THEN Fail("KeyError")
       ELSE IF config.retrive
            THEN IF Has({"train.retrive_path", "model.in_dim", "model.hidden_dims",
                         "model.beta", "model.latent_dim"})
                 THEN Goto("tune") ELSE Fail("KeyError")
            ELSE Goto("tune")
    /\ UNCHANGED tableVars

Tune ==
    /\ pc = "tune"
    /\ Invoke("tune", "save")
    /\ UNCHANGED tableVars

SaveConfig ==
    /\ pc = "save"
    /\ Invoke("write_config", "fit")
    /\ UNCHANGED tableVars

Fit ==
    /\ pc = "fit"
    /\ Invoke("fit", "done")
    /\ UNCHANGED tableVars

-----------------------------------------------------------------------------
(* Specifications *)

TableIdle ==
    /\ call = NoCall
    /\ result = ReturnedNone

MainIdle ==
    /\ pc = "idle"
    /\ config = NoConfig
    /\ invoked = <<>>
    /\ failure = ""

\* the pipeline: any sequence of calls on a table with complete frames
Init ==
    /\ arg \in CompleteTables
    /\ df = arg
    /\ TableIdle
    /\ MainIdle

Next ==
    \/ CenterHip
    \/ CalculateDistance
    \/ CheckHipCentered
    \/ AddLandmarkLocation
    \/ RemoveRows
    \/ CheckIndexRowCount

Spec == Init /\ [][Next]_vars

\* one call of one operation on any input table
InitCall ==
    /\ arg \in AnyTables
    /\ df = arg
    /\ TableIdle
    /\ MainIdle

NextCall ==
    \/ call = NoCall /\ CenterHip
    \/ call = NoCall /\ CalculateDistance
    \/ call = NoCall /\ CheckHipCentered
    \/ call = NoCall /\ AddLandmarkLocation
    \/ call = NoCall /\ RemoveRows
    \/ call = NoCall /\ CheckIndexRowCount

SpecCall == InitCall /\ [][NextCall]_vars

\* one run of main() on any configuration
InitMain ==
    /\ arg = NoTable
    /\ df = NoTable
    /\ TableIdle
    /\ pc = "start"
    /\ config \in Configs
    /\ invoked = <<>>
    /\ failure = ""

NextMain ==
    \/ LoadConfig
    \/ SetupLogger
    \/ SetupPlots
    \/ SetupModel
    \/ SetupData
    \/ SelectCheckpoint
    \/ SetupTrainer
    \/ RetrieveModel
    \/ Tune
    \/ SaveConfig
    \/ Fit

SpecMain == InitMain /\ [][NextMain]_vars

-----------------------------------------------------------------------------
(* Properties of the preprocessing operations *)

Rows(t) == {t.rows[i] : i \in 1..Len(t.rows)}

HipRows(t, f) == {r \in Rows(t) : r.frame = f /\ r.label = "hip"}

\* every frame of t has exactly one row labelled "hip"
OneHipPerFrame(t) == \A f \in FramesOf(t) : Cardinality(HipRows(t, f)) = 1

TheHip(t, f) == CHOOSE h \in Rows(t) : h.frame = f /\ h.label = "hip"

SamePairs(t, u) ==
    /\ Len(t.rows) = Len(u.rows)
    /\ {<<r.frame, r.label>> : r \in Rows(t)} = {<<r.frame, r.label>> : r \in Rows(u)}

\* the row o is the row r centered on the hip row h
CenteredOn(o, r, h) ==
    IF r.label = "hip"
    THEN o.x = 0 /\ o.y = 0 /\ o.z = 0
    ELSE o.x = r.x - h.x /\ o.y = r.y - h.y /\ o.z = r.z - h.z

\* the call returned the table t centered: the same (frame, label) pairs, the hip
\* rows at (0,0,0), every other row at its coordinates minus its frame's hip
ReturnedCentered(t) ==
    /\ result.kind = "table"
    /\ SamePairs(t, result.table)
    /\ \A r \in Rows(t) :
          \E o \in Rows(result.table) :
              /\ o.frame = r.frame
              /\ o.label = r.label
              /\ CenteredOn(o, r, TheHip(t, r.frame))

\* C1 as stated: center_hip on a table with one hip row in every frame returns a
\* table with the same (frame, label) pairs, the hip rows at (0,0,0) and every
\* other row at its input coordinates minus those of the hip row of its own frame.
C1_CenterHip ==
    (call.op = "center_hip" /\ OneHipPerFrame(arg)) => ReturnedCentered(arg)

\* C1 amended: the same, for a table that has at least one frame (on a table
\* without rows there is no hip group and the call raises).
C1_CenterHip_Amended ==
    (call.op = "center_hip" /\ OneHipPerFrame(arg) /\ FramesOf(arg) # {}) =>
        ReturnedCentered(arg)

\* center_hip has run on a table with two frames whose hips differ and are not at
\* the origin, each with a non-hip row
C1_Witness ==
    /\ call.op = "center_hip"
    /\ OneHipPerFrame(arg)
    /\ result.kind = "table"
    /\ \E f, g \in FramesOf(arg) :
          /\ f # g
          /\ TheHip(arg, f).x # TheHip(arg, g).x
          /\ TheHip(arg, f).x # 0
          /\ TheHip(arg, g).y # 0
          /\ \E r, q \in Rows(arg) :
                r.frame = f /\ q.frame = g /\ r.label # "hip" /\ q.label # "hip"

\* the frame f of t has a checked value beyond the threshold
Offending(t, f, n, columns, type) ==
    \E r \in Rows(t) : \E k \in 1..Len(columns) :
        /\ r.frame = f
        /\ ~IsNaN(r[columns[k]])
        /\ IF type = "g" THEN r[columns[k]] > n ELSE r[columns[k]] < n

CountOf(t, f) == Cardinality({i \in 1..Len(t.rows) : t.rows[i].frame = f})

C4_CheckHipCentered ==
    (call.op = "check_hip_centered" /\ result.kind = "bool") =>
        (result.flag <=>
            \A r \in Rows(arg) : r.label = "hip" => (r.x = 0 /\ r.y = 0 /\ r.z = 0))

\* C5: center_hip raises when some frame of the input has no row labelled "hip".
C5_MissingHip ==
    (call.op = "center_hip" /\ \E f \in FramesOf(arg) : HipRows(arg, f) = {}) =>
        result.kind = "raise"

\* d is the distance from (x, y, z) to the point c, to the nearest thousandth
IsDistance(d, x, y, z, c) ==
    LET dx == 1000 * x - c[1]
        dy == 1000 * y - c[2]
        dz == 1000 * z - c[3]
        sq == dx * dx + dy * dy + dz * dz
    IN  /\ d >= 0
        /\ (2 * d - 1) * (2 * d - 1) <= 4 * sq
        /\ 4 * sq <= (2 * d + 1) * (2 * d + 1)

\* the row o is the row r extended by its distances to the reference points
Extends(o, r) ==
    /\ o.frame = r.frame /\ o.label = r.label
    /\ o.x = r.x /\ o.y = r.y /\ o.z = r.z /\ o.distance = r.distance
    /\ Len(o.lmk) = Len(lmks)
    /\ \A i \in 1..Len(lmks) :
          IF IsNaN(r.x) \/ IsNaN(r.y) \/ IsNaN(r.z) THEN IsNaN(o.lmk[i])
          ELSE IsDistance(o.lmk[i], r.x, r.y, r.z, coords[i])

C7_InputUnchanged == df = arg

\* C8 as stated: a row at (0,0,0) gets distance_to_coord_b1 = 4.092.
C8_OriginToB1 ==
    (call.op = "add_landmark_location" /\ result.kind = "table") =>
        \A o \in Rows(result.table) :
            (o.x = 0 /\ o.y = 0 /\ o.z = 0) => o.lmk[1] = 4092

\* C8 amended: a row at (0,0,0) gets distance_to_coord_b1 = 4.276, the square
\* root of 1.883^2 + 2.250^2 + 3.110^2 to three decimal places.
C8_OriginToB1_Amended ==
    (call.op = "add_landmark_location" /\ result.kind = "table") =>
        \A o \in Rows(result.table) :
            (o.x = 0 /\ o.y = 0 /\ o.z = 0) => o.lmk[1] = 4276

\* add_landmark_location has run on a table with a row at the origin
C8_Witness ==
    /\ call.op = "add_landmark_location"
    /\ result.kind = "table"
    /\ \E o \in Rows(result.table) : o.x = 0 /\ o.y = 0 /\ o.z = 0 /\ Len(o.lmk) = 8

NumLabels == Len(LabelOrder)

-----------------------------------------------------------------------------
(* Properties of main() *)

Invoked(what) == \E i \in 1..Len(invoked) : invoked[i] = what

LookedUp(c) ==
    IF c.retrive THEN Keys ELSE Keys \ {"train.retrive_path"}

IsPrefix(s, t) == Len(s) <= Len(t) /\ \A i \in 1..Len(s) : s[i] = t[i]

====
